---- MODULE Spec2Model ----
(***************************************************************************)
(* The requirements.txt tooling of the project template:                   *)
(*   src/tasks/reqs_specs_file_setup.py  (version specifiers, drop-invalid)*)
(*   src/tasks/validate_pkgs_names.py    (comment-out-invalid)             *)
(* A Python str is modelled as a sequence of one-character strings, so     *)
(* that strip(), split(), the regular expressions and int() are computed   *)
(* character by character as the interpreter computes them.                *)
(***************************************************************************)
EXTENDS Integers, Sequences, FiniteSets, TLC

VARIABLES
    \* ---- compare_versions applied to three Strict versions
    v1, v2, v3, cmp, cpc,
    \* ---- prompt_choices / ask_untill_validated
    choice, input1, input2, is_valid, spec, ppc,
    \* ---- one run of a script over requirements.txt
    script,             \* "specs": reqs_specs_file_setup.py, "names": validate_pkgs_names.py
    file,               \* the text of requirements.txt, or NoFile
    argv,               \* sys.argv[1], or NoArgv
    pc,                 \* where the run is
    packages, version_spec_pkgs, invalid_pkgs, new_lines,
    idx,                \* the for loops' position in packages
    requests,           \* the package names urlopen was called for, in call order
    probe,              \* the last existence check: the index's answer and the value returned
    opens,              \* how often the run opened requirements.txt for writing
    second,             \* this is the run made on the first run's output
    prev_file,          \* what the first run wrote
    quiet               \* no package was found invalid and none was prompted for, so far

cmpVars == <<v1, v2, v3, cmp, cpc>>
promptVars == <<choice, input1, input2, is_valid, spec, ppc>>
runVars == <<script, file, argv, pc, packages, version_spec_pkgs, invalid_pkgs, new_lines,
             idx, requests, probe, opens, second, prev_file, quiet>>
vars == <<cmpVars, promptVars, runVars>>

(***************************************************************************)
(* Bounds of the model.                                                    *)
(***************************************************************************)
\* longest version string handed to compare_versions
MaxVerLen == 3

(***************************************************************************)
(* Strings.                                                                *)
(***************************************************************************)
\* all sequences over S of length at most n
StringsUpTo(S, n) == UNION {[1..k -> S] : k \in 0..n}

\* str.isspace() for one character (the ASCII whitespace str.strip() removes)
IsSpace(c) == c \in {" ", "\t", "\n", "\r"}

\* \d of the re module, ASCII digits
IsDigit(c) == c \in {"0", "1", "2", "3", "4", "5", "6", "7", "8", "9"}

DigitVal(c) ==
    CASE c = "0" -> 0 [] c = "1" -> 1 [] c = "2" -> 2 [] c = "3" -> 3
      [] c = "4" -> 4 [] c = "5" -> 5 [] c = "6" -> 6 [] c = "7" -> 7
      [] c = "8" -> 8 [] c = "9" -> 9

RECURSIVE LStrip(_)
LStrip(s) == IF s # <<>> /\ IsSpace(Head(s)) THEN LStrip(Tail(s)) ELSE s

RECURSIVE RStrip(_)
RStrip(s) ==
    IF s # <<>> /\ IsSpace(s[Len(s)]) THEN RStrip(SubSeq(s, 1, Len(s) - 1)) ELSE s

\* str.strip()
Strip(s) == RStrip(LStrip(s))

RECURSIVE SplitFrom(_, _, _, _, _)
SplitFrom(s, sep, k, cur, acc) ==
    IF k > Len(s) THEN Append(acc, cur)
    ELSE IF s[k] = sep THEN SplitFrom(s, sep, k + 1, <<>>, Append(acc, cur))
    ELSE SplitFrom(s, sep, k + 1, Append(cur, s[k]), acc)

\* str.split(sep) for a one-character separator: always at least one field
Split(s, sep) == SplitFrom(s, sep, 1, <<>>, <<>>)

RECURSIVE JoinFrom(_, _, _)
JoinFrom(parts, sep, k) ==
    IF k > Len(parts) THEN <<>>
    ELSE IF k = Len(parts) THEN parts[k]
    ELSE parts[k] \o sep \o JoinFrom(parts, sep, k + 1)

\* sep.join(parts)
Join(parts, sep) == JoinFrom(parts, sep, 1)

(***************************************************************************)
(* VersionGrammar: the two regular expressions, run as automata.           *)
(***************************************************************************)
\* ^\d+(?:\.\d+)*$ : "start" -digit-> "num" -"."-> "dot" -digit-> "num"
StrictStep(q, c) ==
    CASE q = "start" /\ IsDigit(c) -> "num"
      [] q = "num" /\ IsDigit(c) -> "num"
      [] q = "num" /\ c = "." -> "dot"
      [] q = "dot" /\ IsDigit(c) -> "num"
      [] OTHER -> "dead"

\* ^\d+(?:\.\d+)*(?:\.\*)?$ : as above, and "dot" -"*"-> "star", where nothing follows
WildcardStep(q, c) ==
    CASE q = "start" /\ IsDigit(c) -> "num"
      [] q = "num" /\ IsDigit(c) -> "num"
      [] q = "num" /\ c = "." -> "dot"
      [] q = "dot" /\ IsDigit(c) -> "num"
      [] q = "dot" /\ c = "*" -> "star"
      [] OTHER -> "dead"

RECURSIVE StrictRun(_, _, _)
StrictRun(v, k, q) == IF k > Len(v) THEN q ELSE StrictRun(v, k + 1, StrictStep(q, v[k]))

RECURSIVE WildcardRun(_, _, _)
WildcardRun(v, k, q) ==
    IF k > Len(v) THEN q ELSE WildcardRun(v, k + 1, WildcardStep(q, v[k]))

\* without re.MULTILINE, $ matches at the end and also just before a final newline
DropFinalNewline(v) ==
    IF v # <<>> /\ v[Len(v)] = "\n" THEN SubSeq(v, 1, Len(v) - 1) ELSE v

is_valid_strict_version(v) ==
    \/ StrictRun(v, 1, "start") = "num"
    \/ StrictRun(DropFinalNewline(v), 1, "start") = "num"

is_valid_wildcard_version(v) ==
    \/ WildcardRun(v, 1, "start") \in {"num", "star"}
    \/ WildcardRun(DropFinalNewline(v), 1, "start") \in {"num", "star"}

(***************************************************************************)
(* VersionComparator.                                                      *)
(***************************************************************************)
RECURSIVE IntOf(_, _, _)
IntOf(s, k, n) == IF k > Len(s) THEN n ELSE IntOf(s, k + 1, 10 * n + DigitVal(s[k]))

\* int(s) for a string of digits
ParseInt(s) == IntOf(s, 1, 0)

\* list(map(int, v.split('.')))
VersionNums(v) == LET parts == Split(v, ".") IN [k \in 1..Len(parts) |-> ParseInt(parts[k])]

RECURSIVE FirstDiff(_, _, _)
FirstDiff(a, b, k) ==
    IF k > Len(a) \/ k > Len(b) THEN 0
    ELSE IF a[k] # b[k] THEN k
    ELSE FirstDiff(a, b, k + 1)

ZeroPad(a, n) == [k \in 1..n |-> IF k <= Len(a) THEN a[k] ELSE 0]

\* the comparison a zero-padding comparator would make: 1.2 and 1.2.0 are equal
ListLessPadded(a, b) ==
    LET n == IF Len(a) > Len(b) THEN Len(a) ELSE Len(b)
        k == FirstDiff(ZeroPad(a, n), ZeroPad(b, n), 1)
    IN  k # 0 /\ ZeroPad(a, n)[k] < ZeroPad(b, n)[k]

\* list.__lt__: the first differing item decides, else the shorter list is smaller
ListLess(a, b) ==
    LET k == FirstDiff(a, b, 1)
    IN  IF k = 0 THEN Len(a) < Len(b) ELSE a[k] < b[k]

\* list.__gt__
ListGreater(a, b) == ListLess(b, a)

BoolInt(b) == IF b THEN 1 ELSE 0

compare_versions(a, b) ==
    LET nums1 == VersionNums(a)
        nums2 == VersionNums(b)
    IN  BoolInt(ListGreater(nums1, nums2)) - BoolInt(ListLess(nums1, nums2))

(***************************************************************************)
(* SpecCompare: compare_versions on every triple of Strict versions.       *)
(***************************************************************************)
VerChars == {"0", "1", "."}

StrictVersions == {v \in StringsUpTo(VerChars, MaxVerLen) : is_valid_strict_version(v)}

NoCmp == [ab |-> 2, ba |-> 2, bc |-> 2, ac |-> 2]

CmpIdle ==
    /\ v1 = <<>> /\ v2 = <<>> /\ v3 = <<>>
    /\ cmp = NoCmp
    /\ cpc = "off"

NoFile == <<"ENOENT">>
NoArgv == <<"NOARG">>
NoProbe == [response |-> "none", returned |-> FALSE, printed |-> "none"]

RunIdle ==
    /\ script = "off"
    /\ file = NoFile
    /\ argv = NoArgv
    /\ pc = "off"
    /\ packages = <<>>
    /\ version_spec_pkgs = {}
    /\ invalid_pkgs = {}
    /\ new_lines = <<>>
    /\ idx = 0
    /\ requests = <<>>
    /\ probe = NoProbe
    /\ opens = 0
    /\ second = FALSE
    /\ prev_file = NoFile
    /\ quiet = TRUE

PromptIdle ==
    /\ choice = -1
    /\ input1 = <<>> /\ input2 = <<>>
    /\ is_valid = FALSE
    /\ spec = <<>>
    /\ ppc = "off"

InitCompare ==
    /\ v1 \in StrictVersions
    /\ v2 \in StrictVersions
    /\ v3 \in StrictVersions
    /\ cmp = NoCmp
    /\ cpc = "args"
    /\ PromptIdle
    /\ RunIdle

Compare ==
    /\ cpc = "args"
    /\ cmp' = [ab |-> compare_versions(v1, v2), ba |-> compare_versions(v2, v1),
               bc |-> compare_versions(v2, v3), ac |-> compare_versions(v1, v3)]
    /\ cpc' = "done"
    /\ UNCHANGED <<v1, v2, v3, promptVars, runVars>>

NextCompare == Compare

SpecCompare == InitCompare /\ [][NextCompare]_vars

(***************************************************************************)
(* SpecifierValidator: is_valid_range_version, prompt_validate_specifier,  *)
(* prompt_choices and the retry loop ask_untill_validated.                 *)
(***************************************************************************)
EXACT == 1
EXCLUDED == 2
MINIMUM == 3
MAXIMUM == 4
RANGE == 5
COMPATIBLE == 6
LATEST == 7

\* versions[1] of line 74 does not exist: the split gave a single field (IndexError)
RangeRaises(v_specs) == Len(Split(v_specs, ",")) < 2

\* the range check with the order test dropped
is_valid_range_unordered(v_specs) ==
    LET versions == Split(v_specs, ",")
    IN  /\ is_valid_strict_version(Strip(versions[1]))
        /\ is_valid_strict_version(Strip(versions[2]))

\* fields 0 and 1 of the split, whatever follows them; evaluated left to right
is_valid_range_version(v_specs) ==
    LET versions == Split(v_specs, ",")
        a == Strip(versions[1])
        b == Strip(versions[2])
    IN  /\ is_valid_strict_version(a)
        /\ is_valid_strict_version(b)
        /\ compare_versions(a, b) < 0

\* every kind validated with the wildcard grammar
prompt_validate_all_wildcard(c, in1, in2) ==
    LET version_str == Strip(in1)
        op == CASE c = EXACT -> <<"=", "=">> [] c = EXCLUDED -> <<"!", "=">>
                [] c = MINIMUM -> <<">", "=">> [] c = MAXIMUM -> <<"<", "=">>
                [] c = COMPATIBLE -> <<"~", "=">> [] OTHER -> <<>>
    IN  IF c \in {EXACT, EXCLUDED, MINIMUM, MAXIMUM, COMPATIBLE}
        THEN [is_valid |-> is_valid_wildcard_version(version_str),
              spec |-> op \o version_str, raised |-> FALSE]
        ELSE [is_valid |-> c = LATEST, spec |-> <<>>, raised |-> FALSE]

\* one call: in1 and in2 are the lines input() returns (in2 is read for RANGE only);
\* raised: the call ends in an exception instead of returning
prompt_validate_specifier(c, in1, in2) ==
    LET version_str == Strip(in1)
        min_version == Strip(in1)
        max_version == Strip(in2)
    IN  CASE c = EXACT ->
               [is_valid |-> is_valid_wildcard_version(version_str),
                spec |-> <<"=", "=">> \o version_str, raised |-> FALSE]
          [] c = EXCLUDED ->
               [is_valid |-> is_valid_wildcard_version(version_str),
                spec |-> <<"!", "=">> \o version_str, raised |-> FALSE]
          [] c = MINIMUM ->
               [is_valid |-> is_valid_strict_version(version_str),
                spec |-> <<">", "=">> \o version_str, raised |-> FALSE]
          [] c = MAXIMUM ->
               [is_valid |-> is_valid_strict_version(version_str),
                spec |-> <<"<", "=">> \o version_str, raised |-> FALSE]
          [] c = RANGE ->
               LET range_str == min_version \o <<",">> \o max_version
               IN  IF RangeRaises(range_str)
                   THEN [is_valid |-> FALSE, spec |-> <<>>, raised |-> TRUE]
                   ELSE [is_valid |-> is_valid_range_version(range_str),
                         spec |-> <<">", "=">> \o min_version \o <<",", "<">> \o max_version,
                         raised |-> FALSE]
          [] c = COMPATIBLE ->
               [is_valid |-> is_valid_strict_version(version_str),
                spec |-> <<"~", "=">> \o version_str, raised |-> FALSE]
          [] c = LATEST -> [is_valid |-> TRUE, spec |-> <<>>, raised |-> FALSE]
          [] OTHER -> [is_valid |-> FALSE, spec |-> <<>>, raised |-> FALSE]

\* int(s) accepts s: an optional sign and then digits
IsIntLiteral(s) ==
    LET body == IF s # <<>> /\ Head(s) \in {"+", "-"} THEN Tail(s) ELSE s
    IN  body # <<>> /\ \A k \in 1..Len(body) : IsDigit(body[k])

IntLiteral(s) ==
    IF Head(s) = "-" THEN 0 - ParseInt(Tail(s))
    ELSE IF Head(s) = "+" THEN ParseInt(Tail(s))
    ELSE ParseInt(s)

(***************************************************************************)
(* SpecPrompt: one package's menu choice and specifier, typed by a user.   *)
(***************************************************************************)
\* longest line typed for a single version
MaxInputLen == 5
\* longest line typed for one end of a range
MaxRangeLen == 3

InputChars == {"1", ".", "*", " "}
RangeChars == {"1", "2", ".", ","}

\* the few lines typed at the prompts of a whole run over a manifest
RunVersionInputs == {<<"1">>, <<"1", ".", "*">>, <<>>}
RunRangeInputs == {<<"1">>, <<"2">>}
RunChoiceInputs == {<<"1">>, <<"3">>, <<"5">>, <<"7">>, <<"x">>}

VersionInputs == IF pc = "off" THEN StringsUpTo(InputChars, MaxInputLen) ELSE RunVersionInputs

\* the lines typed for a range end, and the shorter ones typed with blanks around them
RangeInputs ==
    IF pc = "off"
    THEN StringsUpTo(RangeChars, MaxRangeLen)
            \cup {<<" ">> \o s \o <<" ">> : s \in StringsUpTo(RangeChars, MaxRangeLen - 2)}
    ELSE RunRangeInputs

\* the lines typed at the menu
ChoiceInputs ==
    IF pc # "off" THEN RunChoiceInputs ELSE
    {<<"0">>, <<"1">>, <<"2">>, <<"3">>, <<"4">>, <<"5">>, <<"6">>, <<"7">>, <<"8">>,
     <<" ", "5", " ">>, <<"+", "3">>, <<"-", "1">>, <<"1", "0">>, <<"x">>, <<>>}

SingleKinds == {EXACT, EXCLUDED, MINIMUM, MAXIMUM, COMPATIBLE}

InitPrompt ==
    /\ choice = -1
    /\ input1 = <<>> /\ input2 = <<>>
    /\ is_valid = FALSE
    /\ spec = <<>>
    /\ ppc = "menu"
    /\ CmpIdle
    /\ RunIdle

\* prompt_choices: int(input().strip()); ValueError and numbers outside 1..7 ask again
PromptChoice ==
    /\ ppc = "menu"
    /\ \E raw \in ChoiceInputs :
         LET s == Strip(raw)
         IN  IF IsIntLiteral(s)
             THEN /\ choice' = IntLiteral(s)
                  /\ ppc' = IF 1 <= IntLiteral(s) /\ IntLiteral(s) <= 7 THEN "ask" ELSE "menu"
             ELSE UNCHANGED <<choice, ppc>>
    /\ UNCHANGED <<input1, input2, is_valid, spec, cmpVars, runVars>>

\* the input() of the kinds that read one version
ReadVersion ==
    /\ ppc = "ask"
    /\ choice \in SingleKinds
    /\ input1' \in VersionInputs
    /\ ppc' = "validate"
    /\ UNCHANGED <<choice, input2, is_valid, spec, cmpVars, runVars>>

\* the first input() of RANGE
ReadMin ==
    /\ ppc = "ask"
    /\ choice = RANGE
    /\ input1' \in RangeInputs
    /\ ppc' = "ask_max"
    /\ UNCHANGED <<choice, input2, is_valid, spec, cmpVars, runVars>>

\* the second input() of RANGE
ReadMax ==
    /\ ppc = "ask_max"
    /\ input2' \in RangeInputs
    /\ ppc' = "validate"
    /\ UNCHANGED <<choice, input1, is_valid, spec, cmpVars, runVars>>

\* LATEST reads nothing
ReadNothing ==
    /\ ppc = "ask"
    /\ choice = LATEST
    /\ ppc' = "validate"
    /\ UNCHANGED <<choice, input1, input2, is_valid, spec, cmpVars, runVars>>

\* is_valid, spec = prompt_validate_specifier(choice)
Validate ==
    /\ ppc = "validate"
    /\ LET r == prompt_validate_specifier(choice, input1, input2)
       IN  /\ is_valid' = r.is_valid
           /\ spec' = r.spec
           /\ ppc' = IF r.raised THEN "raised" ELSE "checked"
    /\ UNCHANGED <<choice, input1, input2, cmpVars, runVars>>

\* if is_valid: return spec
Return ==
    /\ ppc = "checked"
    /\ is_valid
    /\ ppc' = "returned"
    /\ UNCHANGED <<choice, input1, input2, is_valid, spec, cmpVars, runVars>>

\* print("Invalid specifier format, please try again.") and the next turn of the loop
Retry ==
    /\ ppc = "checked"
    /\ ~is_valid
    /\ ppc' = "ask"
    /\ input1' = <<>> /\ input2' = <<>>
    /\ is_valid' = FALSE
    /\ spec' = <<>>
    /\ UNCHANGED <<choice, cmpVars, runVars>>

NextPrompt ==
    \/ PromptChoice
    \/ ReadVersion
    \/ ReadMin
    \/ ReadMax
    \/ ReadNothing
    \/ Validate
    \/ Return
    \/ Retry

SpecPrompt == InitPrompt /\ [][NextPrompt]_vars

(***************************************************************************)
(* The grammar and the order as the specification words them, written      *)
(* without the automata and without list comparison.                       *)
(***************************************************************************)
\* one or more non-empty all-digit components separated by "."
StrictSyntax(v) ==
    LET parts == Split(v, ".")
    IN  \A k \in 1..Len(parts) :
            /\ parts[k] # <<>>
            /\ \A j \in 1..Len(parts[k]) : IsDigit(parts[k][j])

\* a Strict version optionally followed by one trailing ".*"
WildcardSyntax(v) ==
    \/ StrictSyntax(v)
    \/ /\ Len(v) >= 2
       /\ SubSeq(v, Len(v) - 1, Len(v)) = <<".", "*">>
       /\ StrictSyntax(SubSeq(v, 1, Len(v) - 2))

\* lexicographic order of integer tuples, a proper prefix being smaller
TupleLess(a, b) ==
    \E k \in 0..Len(a) :
        /\ k <= Len(b)
        /\ \A j \in 1..k : a[j] = b[j]
        /\ IF k = Len(a) THEN k < Len(b) ELSE k < Len(b) /\ a[k + 1] < b[k + 1]

LexSign(a, b) == IF TupleLess(a, b) THEN -1 ELSE IF TupleLess(b, a) THEN 1 ELSE 0

HasChar(s, c) == \E k \in 1..Len(s) : s[k] = c

StartsWith(s, p) == Len(s) >= Len(p) /\ SubSeq(s, 1, Len(p)) = p

After(s, p) == SubSeq(s, Len(p) + 1, Len(s))

\* >=<low>,<<high> with low and high Strict and low below high
RangeSyntax(s) ==
    /\ StartsWith(s, <<">", "=">>)
    /\ \E k \in 3..Len(s) :
          /\ k + 1 <= Len(s)
          /\ s[k] = "," /\ s[k + 1] = "<"
          /\ LET low == SubSeq(s, 3, k - 1)
                 high == SubSeq(s, k + 2, Len(s))
             IN  /\ StrictSyntax(low)
                 /\ StrictSyntax(high)
                 /\ TupleLess(VersionNums(low), VersionNums(high))

\* the empty specifier or one of the six rendered kinds
IsRenderedSpecifier(s) ==
    \/ s = <<>>
    \/ StartsWith(s, <<"=", "=">>) /\ WildcardSyntax(After(s, <<"=", "=">>))
    \/ StartsWith(s, <<"!", "=">>) /\ WildcardSyntax(After(s, <<"!", "=">>))
    \/ StartsWith(s, <<">", "=">>) /\ StrictSyntax(After(s, <<">", "=">>))
    \/ StartsWith(s, <<"<", "=">>) /\ StrictSyntax(After(s, <<"<", "=">>))
    \/ StartsWith(s, <<"~", "=">>) /\ StrictSyntax(After(s, <<"~", "=">>))
    \/ RangeSyntax(s)

(***************************************************************************)
(* Claims about the specifier validator and the comparator.                *)
(***************************************************************************)
\* C5: every specifier ask_untill_validated returns is empty or one of
\* ==<wildcard>, !=<wildcard>, >=<strict>, <=<strict>, ~=<strict>, or
\* >=<low>,<<high> with low and high Strict and low strictly below high.
C5_ReturnedSpecifierWellFormed == ppc = "returned" => IsRenderedSpecifier(spec)

\* C6: for a range typed as two comma-free fields, each trimmed, the Range kind is
\* valid exactly when both fields are Strict and low compares below high, and a
\* valid range is rendered >=<low>,<<high>.
C6_RangeValidity ==
    (/\ ppc \in {"checked", "returned"}
     /\ choice = RANGE
     /\ ~HasChar(input1, ",")
     /\ ~HasChar(input2, ","))
    => LET low == Strip(input1)
           high == Strip(input2)
       IN  /\ is_valid <=> (/\ StrictSyntax(low)
                            /\ StrictSyntax(high)
                            /\ TupleLess(VersionNums(low), VersionNums(high)))
           /\ is_valid => spec = <<">", "=">> \o low \o <<",", "<">> \o high

\* a valid range, typed with blanks around its low end, has been returned
C6_Witness ==
    /\ ppc = "returned"
    /\ choice = RANGE
    /\ input1 = <<" ", "1", " ">>
    /\ input2 = <<"1", ".", "2">>
    /\ spec = <<">", "=", "1", ",", "<", "1", ".", "2">>

C8_CompareTotalOrder ==
    cpc = "done"
    => LET n1 == VersionNums(v1)
           n2 == VersionNums(v2)
       IN  /\ cmp.ab \in {-1, 0, 1}
           /\ cmp.ab = LexSign(n1, n2)
           /\ cmp.ab = 0 - cmp.ba
           /\ cmp.ab = 0 <=> n1 = n2
           /\ (cmp.ab < 0 /\ cmp.bc < 0) => cmp.ac < 0

\* 1 < 1.0 < 1.1 has been compared: the prefix 1 is below 1.0
C8_Witness ==
    /\ cpc = "done"
    /\ v1 = <<"1">>
    /\ v2 = <<"1", ".", "0">>
    /\ v3 = <<"1", ".", "1">>
    /\ cmp.ab = -1 /\ cmp.bc = -1 /\ cmp.ac = -1

\* the rule of the kind, on the typed lines with each field trimmed
KindAccepts(c, in1, in2) ==
    CASE c \in {EXACT, EXCLUDED} -> WildcardSyntax(Strip(in1))
      [] c \in {MINIMUM, MAXIMUM, COMPATIBLE} -> StrictSyntax(Strip(in1))
      [] c = RANGE ->
           /\ StrictSyntax(Strip(in1))
           /\ StrictSyntax(Strip(in2))
           /\ TupleLess(VersionNums(Strip(in1)), VersionNums(Strip(in2)))
      [] c = LATEST -> TRUE
      [] OTHER -> FALSE

\* C11: malformed specifier input never ends the process and is always asked for
\* again with the same kind: the validation step never raises, it returns invalid
\* for every typed input the kind's rule does not accept (empty lines, a wildcard
\* that is not last, range fields that are empty or hold commas), after an invalid
\* answer the loop can only print the diagnostic and prompt again, and
\* ask_untill_validated returns only after an input the kind's rule accepts.
C11_MalformedInputReprompted ==
    /\ ppc # "raised"
    /\ ppc = "checked" => (is_valid <=> KindAccepts(choice, input1, input2))
    /\ (ppc = "checked" /\ ~is_valid) => (ENABLED Retry /\ ~ENABLED Return)
    /\ ppc = "returned" => KindAccepts(choice, input1, input2)

(***************************************************************************)
(* PackageExistenceChecker and the manifest file.                          *)
(***************************************************************************)
\* what urlopen does: returns (a 200), raises HTTPError with a code, raises URLError
Responses == {"200", "404", "500", "URLError"}

\* reqs_specs_file_setup.py: the value returned and the diagnostic printed
validate_pypi_package_exists(response) ==
    CASE response = "200" -> [returned |-> TRUE, printed |-> "none"]
      [] response = "404" -> [returned |-> FALSE, printed |-> "none"]
      [] response = "URLError" -> [returned |-> FALSE, printed |-> "Network error"]
      [] OTHER -> [returned |-> FALSE, printed |-> "Error accessing PyPI"]

\* validate_pkgs_names.py: the same function under another name and URL
pypi_package_exists(response) ==
    CASE response = "200" -> [returned |-> TRUE, printed |-> "none"]
      [] response = "404" -> [returned |-> FALSE, printed |-> "none"]
      [] response = "URLError" -> [returned |-> FALSE, printed |-> "Network error"]
      [] OTHER -> [returned |-> FALSE, printed |-> "Error accessing PyPI"]

RECURSIVE LinesFrom(_, _, _, _)
LinesFrom(s, k, cur, acc) ==
    IF k > Len(s) THEN (IF cur = <<>> THEN acc ELSE Append(acc, cur))
    ELSE IF s[k] = "\n" THEN LinesFrom(s, k + 1, <<>>, Append(acc, Append(cur, "\n")))
    ELSE LinesFrom(s, k + 1, Append(cur, s[k]), acc)

\* for line in f: the lines of a text file, each with its newline when it has one
FileLines(content) == LinesFrom(content, 1, <<>>, <<>>)

NonEmpty(l) == l # <<>>

\* the lines kept as they are in the file, neither stripped nor filtered
read_reqs_file_raw(content) == FileLines(content)

\* [line.strip() for line in f if line.strip()]
read_reqs_file(content) ==
    LET lines == FileLines(content)
    IN  SelectSeq([k \in 1..Len(lines) |-> Strip(lines[k])], NonEmpty)

\* f.write("\n".join(new_lines))
FileText(lines) == Join(lines, <<"\n">>)

\* set(sys.argv[1].strip().split(","))
verify_return_version_spec_pkgs(raw) ==
    LET spec_deps == Split(Strip(raw), ",")
    IN  {spec_deps[k] : k \in 1..Len(spec_deps)}

\* a list that puts the new line first
PrependLine(lines, l) == <<l>> \o lines

\* new_lines.append(l)
AppendLine(lines, l) == Append(lines, l)

PIP == <<"p", "i", "p">>
PIP3 == <<"p", "i", "p", "3">>

\* f"# {pkg} - Invalid package name"
InvalidLine(pkg) ==
    <<"#", " ">> \o pkg
        \o <<" ", "-", " ", "I", "n", "v", "a", "l", "i", "d", " ",
             "p", "a", "c", "k", "a", "g", "e", " ", "n", "a", "m", "e">>

(***************************************************************************)
(* Spec: runs of the two scripts over a manifest.                          *)
(***************************************************************************)
\* most lines in the manifest the first run reads
MaxLines == 2

\* the lines a manifest is made of: a name, a comment, a name with blanks around it,
\* a blank line, a reserved name
RawLines == {<<"a">>, <<"#", " ", "a">>, <<" ", "a", " ">>, <<>>, PIP}

Files == {FileText(ls) : ls \in StringsUpTo(RawLines, MaxLines)}

\* sys.argv[1]: a name no manifest has, or a name and a comment line
ArgvInputs == {<<"x">>, <<"a", ",", "#", " ", "a">>}

Init ==
    /\ script \in {"specs", "names"}
    /\ file \in Files \cup {NoFile}
    /\ argv \in IF script = "specs" THEN ArgvInputs \cup {NoArgv} ELSE {NoArgv}
    /\ pc = "start"
    /\ packages = <<>>
    /\ version_spec_pkgs = {}
    /\ invalid_pkgs = {}
    /\ new_lines = <<>>
    /\ idx = 0
    /\ requests = <<>>
    /\ probe = NoProbe
    /\ opens = 0
    /\ second = FALSE
    /\ prev_file = NoFile
    /\ quiet = TRUE
    /\ PromptIdle
    /\ CmpIdle

\* reqs_specs_file_setup.py __main__, to the call of validate_reqs_pkgs
StartSpecs ==
    /\ pc = "start"
    /\ script = "specs"
    /\ IF file = NoFile \/ argv = NoArgv
       THEN /\ pc' = "exit"
            /\ UNCHANGED <<packages, version_spec_pkgs, idx>>
       ELSE /\ packages' = read_reqs_file(file)
            /\ version_spec_pkgs' = verify_return_version_spec_pkgs(argv)
            /\ idx' = 1
            /\ pc' = "validate"
    /\ invalid_pkgs' = {}
    /\ UNCHANGED <<script, file, argv, new_lines, requests, probe, opens, second,
                   prev_file, quiet, promptVars, cmpVars>>

\* the loop turn of a checker that asks again for a package whose check failed
CheckSpecsRetrying ==
    /\ pc = "validate"
    /\ script = "specs"
    /\ idx <= Len(packages)
    /\ \E response \in Responses :
         LET r == validate_pypi_package_exists(response)
         IN  /\ requests' = Append(requests, packages[idx])
             /\ probe' = [response |-> response, returned |-> r.returned,
                          printed |-> r.printed]
             /\ idx' = IF r.returned THEN idx + 1 ELSE idx
    /\ UNCHANGED <<script, file, argv, pc, packages, version_spec_pkgs, invalid_pkgs,
                   new_lines, opens, second, prev_file, quiet, promptVars, cmpVars>>

\* one turn of the loop of validate_reqs_pkgs (drop-invalid)
CheckSpecs ==
    /\ pc = "validate"
    /\ script = "specs"
    /\ idx <= Len(packages)
    /\ \E response \in Responses :
         LET r == validate_pypi_package_exists(response)
         IN  /\ requests' = Append(requests, packages[idx])
             /\ probe' = [response |-> response, returned |-> r.returned,
                          printed |-> r.printed]
             /\ invalid_pkgs' = IF r.returned THEN invalid_pkgs
                                ELSE invalid_pkgs \cup {packages[idx]}
             /\ quiet' = (quiet /\ r.returned)
    /\ idx' = idx + 1
    /\ UNCHANGED <<script, file, argv, pc, packages, version_spec_pkgs, new_lines, opens,
                   second, prev_file, promptVars, cmpVars>>

\* validate_reqs_pkgs returns and edit_reqs_file_specs begins
EnterEdit ==
    /\ pc = "validate"
    /\ script = "specs"
    /\ idx > Len(packages)
    /\ pc' = "edit"
    /\ idx' = 1
    /\ new_lines' = <<>>
    /\ UNCHANGED <<script, file, argv, packages, version_spec_pkgs, invalid_pkgs, requests,
                   probe, opens, second, prev_file, quiet, promptVars, cmpVars>>

\* one turn of the loop of edit_reqs_file_specs, up to the prompt when there is one
EditLine ==
    /\ pc = "edit"
    /\ idx <= Len(packages)
    /\ LET pkg == packages[idx]
       IN  IF pkg \in invalid_pkgs
           THEN /\ idx' = idx + 1
                /\ UNCHANGED <<pc, new_lines, quiet, ppc>>
           ELSE IF pkg \in version_spec_pkgs
           THEN /\ pc' = "prompt"
                /\ ppc' = "menu"
                /\ quiet' = FALSE
                /\ UNCHANGED <<idx, new_lines>>
           ELSE /\ new_lines' = AppendLine(new_lines, pkg \o <<>>)
                /\ idx' = idx + 1
                /\ UNCHANGED <<pc, quiet, ppc>>
    /\ UNCHANGED <<script, file, argv, packages, version_spec_pkgs, invalid_pkgs, requests,
                   probe, opens, second, prev_file, choice, input1, input2, is_valid, spec,
                   cmpVars>>

\* ask_untill_validated has returned: new_lines.append(f"{pkg}{spec}")
AppendSpec ==
    /\ pc = "prompt"
    /\ ppc = "returned"
    /\ new_lines' = AppendLine(new_lines, packages[idx] \o spec)
    /\ idx' = idx + 1
    /\ pc' = "edit"
    /\ choice' = -1
    /\ input1' = <<>> /\ input2' = <<>>
    /\ is_valid' = FALSE
    /\ spec' = <<>>
    /\ ppc' = "off"
    /\ UNCHANGED <<script, file, argv, packages, version_spec_pkgs, invalid_pkgs, requests,
                   probe, opens, second, prev_file, quiet, cmpVars>>

\* the write indented into the loop: the file is opened after each line
WriteSpecsInLoop ==
    /\ pc = "edit"
    /\ idx > 1
    /\ file' = FileText(new_lines)
    /\ opens' = opens + 1
    /\ pc' = IF idx > Len(packages) THEN "done" ELSE "edit"
    /\ UNCHANGED <<script, argv, packages, version_spec_pkgs, invalid_pkgs, new_lines, idx,
                   requests, probe, second, prev_file, quiet, promptVars, cmpVars>>

\* the loop is over: open("requirements.txt", "w") and write
WriteSpecs ==
    /\ pc = "edit"
    /\ idx > Len(packages)
    /\ file' = FileText(new_lines)
    /\ opens' = opens + 1
    /\ pc' = "done"
    /\ UNCHANGED <<script, argv, packages, version_spec_pkgs, invalid_pkgs, new_lines, idx,
                   requests, probe, second, prev_file, quiet, promptVars, cmpVars>>

\* validate_pkgs_names.py __main__, to the call of validate_reqs_pkgs
StartNames ==
    /\ pc = "start"
    /\ script = "names"
    /\ IF file = NoFile
       THEN /\ pc' = "exit"
            /\ UNCHANGED <<packages, idx>>
       ELSE /\ packages' = read_reqs_file(file)
            /\ idx' = 1
            /\ pc' = IF read_reqs_file(file) = <<>> THEN "exit" ELSE "validate"
    /\ new_lines' = <<>>
    /\ UNCHANGED <<script, file, argv, version_spec_pkgs, invalid_pkgs, requests, probe,
                   opens, second, prev_file, quiet, promptVars, cmpVars>>

\* one turn of the loop of validate_reqs_pkgs (comment-out-invalid)
CheckNames ==
    /\ pc = "validate"
    /\ script = "names"
    /\ idx <= Len(packages)
    /\ \E response \in Responses :
         LET r == pypi_package_exists(response)
             pkg == packages[idx]
             ok == r.returned /\ pkg \notin {PIP, PIP3}
         IN  /\ requests' = Append(requests, pkg)
             /\ probe' = [response |-> response, returned |-> r.returned,
                          printed |-> r.printed]
             /\ new_lines' = AppendLine(new_lines, IF ok THEN pkg ELSE InvalidLine(pkg))
             /\ quiet' = (quiet /\ ok)
    /\ idx' = idx + 1
    /\ UNCHANGED <<script, file, argv, pc, packages, version_spec_pkgs, invalid_pkgs, opens,
                   second, prev_file, promptVars, cmpVars>>

\* write_reqs_file(new_lines)
WriteNames ==
    /\ pc = "validate"
    /\ script = "names"
    /\ idx > Len(packages)
    /\ file' = FileText(new_lines)
    /\ opens' = opens + 1
    /\ pc' = "done"
    /\ UNCHANGED <<script, argv, packages, version_spec_pkgs, invalid_pkgs, new_lines, idx,
                   requests, probe, second, prev_file, quiet, promptVars, cmpVars>>

\* the same script is started once more, on the file the first run wrote
Rerun ==
    /\ pc = "done"
    /\ ~second
    /\ second' = TRUE
    /\ prev_file' = file
    /\ pc' = "start"
    /\ packages' = <<>>
    /\ version_spec_pkgs' = {}
    /\ invalid_pkgs' = {}
    /\ new_lines' = <<>>
    /\ idx' = 0
    /\ requests' = <<>>
    /\ probe' = NoProbe
    /\ opens' = 0
    /\ UNCHANGED <<script, file, argv, quiet, promptVars, cmpVars>>

Next ==
    \/ StartSpecs
    \/ CheckSpecs
    \/ EnterEdit
    \/ EditLine
    \/ pc = "prompt" /\ NextPrompt
    \/ AppendSpec
    \/ WriteSpecs
    \/ StartNames
    \/ CheckNames
    \/ WriteNames
    \/ Rerun

Spec == Init /\ [][Next]_vars

(***************************************************************************)
(* Claims about the runs.                                                  *)
(***************************************************************************)
\* the three outcomes of the taxonomy
OutcomeClass(response) ==
    CASE response = "200" -> "Exists"
      [] response = "404" -> "NotFound"
      [] OTHER -> "CheckFailed"

\* the check function of the running script
CheckOf(response) ==
    IF script = "names" THEN pypi_package_exists(response)
    ELSE validate_pypi_package_exists(response)

\* C1: the value an existence check returns tells Exists (200), NotFound (404) and
\* CheckFailed (any other status, or a network failure) apart: two answers of the
\* index that give the same returned value are of the same class, so CheckFailed is
\* never the outcome NotFound has.
C1_ThreeOutcomes ==
    probe.response # "none"
    => \A r \in Responses :
          CheckOf(r).returned = probe.returned => OutcomeClass(r) = OutcomeClass(probe.response)

IsComment(l) == l # <<>> /\ l[1] = "#"

\* C2: a line beginning with "#" is never passed to the existence check, never
\* prompted for a specifier, and is in the output unchanged (neither dropped nor
\* rewritten), in both scripts.
C2_CommentPassthrough ==
    /\ \A k \in 1..Len(requests) : ~IsComment(requests[k])
    /\ pc = "prompt" => ~IsComment(packages[idx])
    /\ pc = "done" =>
          \A k \in 1..Len(packages) :
              IsComment(packages[k]) => \E j \in 1..Len(new_lines) : new_lines[j] = packages[k]

NotInvalid(pkg) == pkg \notin invalid_pkgs

\* C3: the output lines come from the input lines in input order: the lines built
\* so far are, one for one and in order, the lines read so far (less the dropped
\* ones in the drop-invalid script), each an input line with at most a specifier
\* or the invalid-package wrapping added; nothing is swapped and repeated lines
\* are not merged; the file written is these lines in this order.
C3_OrderPreserved ==
    /\ (script = "specs" /\ pc \in {"edit", "prompt", "done"}) =>
          LET kept == SelectSeq(SubSeq(packages, 1, idx - 1), NotInvalid)
          IN  /\ Len(new_lines) = Len(kept)
              /\ \A k \in 1..Len(kept) : StartsWith(new_lines[k], kept[k])
    /\ (script = "names" /\ pc \in {"validate", "done"}) =>
          /\ Len(new_lines) = idx - 1
          /\ \A k \in 1..Len(new_lines) :
                new_lines[k] \in {packages[k], InvalidLine(packages[k])}
    /\ pc = "done" => file = FileText(new_lines)

\* a manifest naming a twice, both flagged, was written with its two lines in order
C3_Witness ==
    /\ pc = "done"
    /\ script = "specs"
    /\ packages = << <<"a">>, <<"a">> >>
    /\ new_lines = << <<"a", "=", "=", "1">>, <<"a">> >>

\* C4: with nothing flagged and no package found invalid, the edit pass writes each
\* line back exactly as read, and run again on its own output it writes the same
\* bytes.
C4_Idempotent ==
    (script = "specs" /\ quiet /\ pc = "done")
    => /\ new_lines = packages
       /\ second => file = prev_file

\* the pass has run on its own output a, pip and has left it as it was
C4_Witness ==
    /\ script = "specs"
    /\ quiet
    /\ pc = "done"
    /\ second
    /\ packages = << <<"a">>, PIP >>
    /\ file = <<"a", "\n", "p", "i", "p">>
    /\ prev_file = file

\* C9: a run opens the manifest for writing at most once, a run that has completed
\* has opened it exactly once, and the write comes after every existence check and
\* every prompt: until then (a run blocked in a prompt included) nothing is written.
C9_WriteOnceAtEnd ==
    /\ opens \in {0, 1}
    /\ opens = 1 <=> pc = "done"
    /\ pc = "done" =>
          /\ Len(requests) = Len(packages)
          /\ idx > Len(packages)
          /\ ppc = "off"
    /\ pc = "prompt" => opens = 0
    /\ (second /\ pc # "done") => file = prev_file

\* a run that checked two lines and prompted for a specifier has written once
C9_Witness ==
    /\ pc = "done"
    /\ script = "specs"
    /\ opens = 1
    /\ Len(requests) = 2
    /\ \E k \in 1..Len(new_lines) : new_lines[k] = <<"a", "=", "=", "1">>

\* C10 as amended: the checks are made one per manifest line, in manifest order,
\* and never again: the names requested so far are the lines read so far, a line
\* whose check failed is not retried, and a name on k lines is requested k times.
C10_OneAttemptPerLine ==
    /\ Len(requests) <= Len(packages)
    /\ requests = SubSeq(packages, 1, Len(requests))
    /\ pc = "validate" => Len(requests) = idx - 1
    /\ pc \in {"edit", "prompt", "done"} => Len(requests) = Len(packages)

\* C10 as stated: besides, no name is requested more than once in a run, a name
\* that occurs on several manifest lines included.
C10_OneAttemptPerName ==
    /\ C10_OneAttemptPerLine
    /\ \A i, j \in 1..Len(requests) : i # j => requests[i] # requests[j]

\* a was on two lines and was requested twice, the second check failing with a 500
C10_Witness ==
    /\ pc = "done"
    /\ requests = << <<"a">>, <<"a">> >>
    /\ probe.response = "500"

====
